---- MODULE Spec2Model ----
(***************************************************************************)
(* The text-flow layout engine of the cocktails notecard generator:        *)
(* notecard/geometry.py (Point, Rectangle) and notecard/textbox.py (Text,  *)
(* TextBox).  A TextBox is built with add() and laid out with render();    *)
(* Points are heap objects so that aliasing (origin / cursor / bounds) is  *)
(* part of the model.  Strings are sequences of one-character strings.     *)
(***************************************************************************)
EXTENDS Integers, Sequences, FiniteSets, TLC

VARIABLES box, heap, cursor, bounds, fonts, screen, pc, idx, overflow,
          overflowAt, result, originArg, prev, env

vars == <<box, heap, cursor, bounds, fonts, screen, pc, idx, overflow,
          overflowAt, result, originArg, prev, env>>

\* prev: what the render before this one drew and returned
\* env:  the names and the rectangle of the geometry operations

\* ------------------------------------------------------------------ bounds
\* the size of a box's content: every segment counts one plus its characters
MaxContent == 5

\* ------------------------------------------------------------ input sets
Chars == {"a", " ", "\n"}
Fonts == {"body", "h1"}
NoFont == "nofont"
Widths == {2}
Heights == {0, 6}
LineHeights == {1, 2}
Indents == {0, 1}
Origins == {[x |-> 2, y |-> 1]}
Plain == [bold |-> FALSE, italic |-> FALSE, underline |-> FALSE]
BoldStyle == [bold |-> TRUE, italic |-> FALSE, underline |-> FALSE]
Styles == {Plain}
Strings(n) == UNION {[1..k -> Chars] : k \in 0..n}

None == [kind |-> "none"]

\* ------------------------------------------------- pygame font (external)
\* font.size(text): the width is the sum of the glyph advances (every glyph
\* of this model is 1 wide, 2 wide when the font is currently bold); the
\* height is the font's line height, whatever the text and the style.
\* The font "card" is the one of the worked example: every word measures
\* 60 and a space 10.
FontHeight(f) == IF f = "h1" THEN 3 ELSE 2

Size(style, f, s) ==
    IF f = "card"
    THEN [w |-> IF s = <<" ">> THEN 10 ELSE IF s = <<>> THEN 0 ELSE 60,
          h |-> FontHeight(f)]
    ELSE [w |-> Len(s) * (IF style.bold THEN 2 ELSE 1), h |-> FontHeight(f)]

SetStyleNone(fs, t) == fs

\* font.set_bold / set_italic / set_underline: style is state of the font
SetStyle(fs, t) ==
    [fs EXCEPT ![t.font] =
        [bold |-> t.bold, italic |-> t.italic, underline |-> t.underline]]

\* ------------------------------------------------------------- geometry.py
PointCopyAlias(h, src, new) == [ref |-> src, heap |-> h]

\* Point.copy: a new Point object `new` with the coordinates of `src`
PointCopy(h, src, new) == [ref |-> new, heap |-> [h EXCEPT ![new] = h[src]]]

\* Point.__add__: a new Point object `new`
PointAdd(h, self, other, new) ==
    [ref |-> new,
     heap |-> [h EXCEPT ![new] = [x |-> h[self].x + h[other].x,
                                  y |-> h[self].y + h[other].y]]]

\* Point.__sub__: a new Point object `new`
PointSub(h, self, other, new) ==
    [ref |-> new,
     heap |-> [h EXCEPT ![new] = [x |-> h[self].x - h[other].x,
                                  y |-> h[self].y - h[other].y]]]

\* Point.__iadd__: self is changed in place; the method has no return
\* statement, so what it returns, and what `p += q` binds p to, is None
PointIAdd(h, self, other) ==
    [ref |-> "None",
     heap |-> [h EXCEPT ![self] = [x |-> h[self].x + h[other].x,
                                   y |-> h[self].y + h[other].y]]]

\* Point.__isub__: as __iadd__
PointISub(h, self, other) ==
    [ref |-> "None",
     heap |-> [h EXCEPT ![self] = [x |-> h[self].x - h[other].x,
                                   y |-> h[self].y - h[other].y]]]

\* Rectangle(top_left, width, height): top_left is a reference, not a copy
Rectangle(top_left, width, height) ==
    [top_left |-> top_left, width |-> width, height |-> height]

RectBottomRightSquare(h, r) ==
    [x |-> h[r.top_left].x + r.width, y |-> h[r.top_left].y + r.width]

\* Rectangle.bottom_right: a new Point each time it is read
RectBottomRight(h, r) ==
    [x |-> h[r.top_left].x + r.width, y |-> h[r.top_left].y + r.height]

RectLeft(h, r) == h[r.top_left].x

RectRight(h, r) == RectBottomRight(h, r).x

RectTop(h, r) == h[r.top_left].y

RectBottom(h, r) == RectBottomRight(h, r).y

\* -------------------------------------------------------------- textbox.py
\* str.split(sep) for a one-character separator
RECURSIVE SplitFrom(_, _, _, _)
SplitFrom(s, sep, i, cur) ==
    IF i > Len(s) THEN <<cur>>
    ELSE IF s[i] = sep THEN <<cur>> \o SplitFrom(s, sep, i + 1, <<>>)
    ELSE SplitFrom(s, sep, i + 1, Append(cur, s[i]))

SplitSkipEmpty(s, sep) ==
    SelectSeq(SplitFrom(s, sep, 1, <<>>), LAMBDA w : w # <<>>)

Split(s, sep) == SplitFrom(s, sep, 1, <<>>)

NewlineNoOffset(h, cur, bnds, offset, space_height, line_height) ==
    [h EXCEPT ![cur] = [x |-> RectLeft(h, bnds),
                        y |-> @.y + space_height * line_height]]

\* newline(offset), the closure of Text.render
Newline(h, cur, bnds, offset, space_height, line_height) ==
    [h EXCEPT ![cur] = [x |-> RectLeft(h, bnds) + offset,
                        y |-> @.y + space_height * line_height]]

NeedsWrapAtEdge(width, available_width) == width >= available_width

NeedsWrapPastEdge(width, available_width) == width > available_width + 1

\* `if width > available_width`
NeedsWrap(width, available_width) == width > available_width

OverflowsPastBottom(h, cur, bnds, space_height) ==
    bnds.height > 0 /\ h[cur].y + space_height > RectBottom(h, bnds)

OverflowsAnyHeight(h, cur, bnds, space_height) ==
    h[cur].y + space_height >= RectBottom(h, bnds)

\* `if bounds.height > 0 and cursor.y + space_height >= bounds.bottom`
Overflows(h, cur, bnds, space_height) ==
    bnds.height > 0 /\ h[cur].y + space_height >= RectBottom(h, bnds)

HasSpaceAfterEvery(k, nwords) == k <= nwords

\* `if word_idx + 1 < len(words)` (word_idx is 0-based, k is 1-based)
HasSpaceAfter(k, nwords) == k < nwords

NewlineAfterEvery(l, nlines) == l <= nlines

\* `if line_idx + 1 < len(lines)` (line_idx is 0-based, l is 1-based)
NewlineAfter(l, nlines) == l < nlines

\* One iteration of the word loop.  r = [heap, fonts, screen, raised, at]
RenderWord(r, t, seg, l, k, words, cur, bnds, line_height, indent, space) ==
    LET word == words[k]
        width == Size(r.fonts[t.font], t.font, word).w
        reach == r.heap[cur]
        available_width == bnds.width - (reach.x - RectLeft(r.heap, bnds))
        h1 == IF NeedsWrap(width, available_width)
              THEN Newline(r.heap, cur, bnds, indent, space.h, line_height)
              ELSE r.heap
    IN  IF Overflows(h1, cur, bnds, space.h)
        THEN [r EXCEPT !.heap = h1, !.raised = TRUE,
                       !.at = [seg |-> seg, line |-> l, word |-> k]]
        ELSE
        LET f1 == SetStyle(r.fonts, t)
            blitWord == [kind |-> "word", seg |-> seg, line |-> l, word |-> k,
                         text |-> word, x |-> h1[cur].x, y |-> h1[cur].y,
                         x0 |-> reach.x, y0 |-> reach.y, width |-> width,
                         measured |-> r.fonts[t.font], style |-> f1[t.font]]
            h2 == [h1 EXCEPT ![cur].x = @ + width]
            blitSpace == [kind |-> "space", seg |-> seg, line |-> l, word |-> k,
                          text |-> <<" ">>, x |-> h2[cur].x, y |-> h2[cur].y,
                          x0 |-> h2[cur].x, y0 |-> h2[cur].y, width |-> space.w,
                          measured |-> space.style, style |-> f1[t.font]]
            h3 == [h2 EXCEPT ![cur].x = @ + space.w]
        IN  IF HasSpaceAfter(k, Len(words))
            THEN [r EXCEPT !.heap = h3, !.fonts = f1,
                           !.screen = r.screen \o <<blitWord, blitSpace>>]
            ELSE [r EXCEPT !.heap = h2, !.fonts = f1,
                           !.screen = Append(r.screen, blitWord)]

\* `for word_idx, word in enumerate(words)`; a raised OverflowError leaves it
RECURSIVE RenderWords(_, _, _, _, _, _, _, _, _, _, _)
RenderWords(r, t, seg, l, k, words, cur, bnds, line_height, indent, space) ==
    IF r.raised \/ k > Len(words) THEN r
    ELSE RenderWords(
            RenderWord(r, t, seg, l, k, words, cur, bnds, line_height, indent, space),
            t, seg, l, k + 1, words, cur, bnds, line_height, indent, space)

\* `for line_idx, line in enumerate(lines)`, with the newline(0) that
\* follows every line but the last
RECURSIVE RenderLines(_, _, _, _, _, _, _, _, _, _)
RenderLines(r, t, seg, l, lines, cur, bnds, line_height, indent, space) ==
    IF r.raised \/ l > Len(lines) THEN r
    ELSE
    LET r1 == RenderWords(r, t, seg, l, 1, Split(lines[l], " "), cur, bnds,
                          line_height, indent, space)
        r2 == IF ~r1.raised /\ NewlineAfter(l, Len(lines))
              THEN [r1 EXCEPT !.heap =
                        Newline(r1.heap, cur, bnds, 0, space.h, line_height)]
              ELSE r1
    IN  RenderLines(r2, t, seg, l + 1, lines, cur, bnds, line_height, indent, space)

\* Text.render(screen, cursor, bounds, line_height, indent)
TextRender(r, t, seg, cur, bnds, line_height, indent) ==
    LET sz == Size(r.fonts[t.font], t.font, <<" ">>)
        space == [w |-> sz.w, h |-> sz.h, style |-> r.fonts[t.font]]
    IN  RenderLines(r, t, seg, 1, Split(t.text, "\n"), cur, bnds,
                    line_height, indent, space)

\* TextBox.__bool__
Bool(b) == Len(b.texts) > 0

LoopAfterSwallowInside(raised, i, n) == i + 1

\* The position of TextBox.render's `for text in self.texts` after the
\* segment at i: the try encloses the loop, so a raised error leaves it
LoopAfter(raised, i, n) == IF raised THEN n + 1 ELSE i + 1

HandledIndexError(exc) == exc = "IndexError"

\* `except OverflowError: pass`
Handled(exc) == exc = "OverflowError"

FirstText(texts) == texts[1]

\* `self.texts[-1]`
LastText(texts) == texts[Len(texts)]

\* ------------------------------------------------------------------ state
\* nothing rendered yet
Idle ==
    /\ heap = [o \in {"origin", "cursor", "corner", "bottom_right"} |-> None]
    /\ cursor = "none"
    /\ bounds = None
    /\ fonts = [f \in Fonts |-> Plain]
    /\ screen = <<>>
    /\ pc = "build"
    /\ idx = 0
    /\ overflow = FALSE
    /\ overflowAt = None
    /\ result = None
    /\ originArg = None
    /\ prev = None
    /\ env = None

Init ==
    /\ box \in [width : Widths, height : Heights, line_height : LineHeights,
                indent : Indents, texts : {<<>>}, font : {"body"}]
    /\ Idle

ContentSize(texts) ==
    LET RECURSIVE Sum(_)
        Sum(i) == IF i = 0 THEN 0 ELSE 1 + Len(texts[i].text) + Sum(i - 1)
    IN  Sum(Len(texts))

AddFront(text, font, style) ==
    /\ pc = "build"
    /\ ContentSize(box.texts) + 1 + Len(text) <= MaxContent
    /\ box' = [box EXCEPT !.texts =
                 <<[text |-> text,
                    font |-> IF font = NoFont THEN box.font ELSE font,
                    bold |-> style.bold, italic |-> style.italic,
                    underline |-> style.underline]>> \o @]
    /\ UNCHANGED <<heap, cursor, bounds, fonts, screen, pc, idx, overflow,
                   overflowAt, result, originArg, prev, env>>

\* TextBox.add(text, **args)
TextBoxAdd(text, font, style) ==
    /\ pc = "build"
    /\ box' = [box EXCEPT !.texts = Append(@,
                 [text |-> text,
                  font |-> IF font = NoFont THEN box.font ELSE font,
                  bold |-> style.bold, italic |-> style.italic,
                  underline |-> style.underline])]
    /\ UNCHANGED <<heap, cursor, bounds, fonts, screen, pc, idx, overflow,
                   overflowAt, result, originArg, prev, env>>

\* TextBox.add while the content stays within the bound
Add(text, font, style) ==
    /\ ContentSize(box.texts) + 1 + Len(text) <= MaxContent
    /\ TextBoxAdd(text, font, style)

\* TextBox.render, entry: cursor = origin.copy(); bounds = Rectangle(origin, ...)
RenderBegin(origin) ==
    /\ pc = "build"
    /\ LET h0 == [heap EXCEPT !["origin"] = origin]
           c == PointCopy(h0, "origin", "cursor")
       IN  /\ heap' = c.heap
           /\ cursor' = c.ref
    /\ bounds' = Rectangle("origin", box.width, box.height)
    /\ originArg' = origin
    /\ idx' = 1
    /\ pc' = "render"
    /\ UNCHANGED <<box, fonts, screen, overflow, overflowAt, result, prev, env>>

\* TextBox.render, one iteration of `for text in self.texts` under the try
RenderText ==
    /\ pc = "render"
    /\ idx <= Len(box.texts)
    /\ LET r == TextRender([heap |-> heap, fonts |-> fonts, screen |-> screen,
                            raised |-> FALSE, at |-> None],
                           box.texts[idx], idx, cursor, bounds,
                           box.line_height, box.indent)
       IN  /\ heap' = r.heap
           /\ fonts' = r.fonts
           /\ screen' = r.screen
           /\ overflow' = (overflow \/ r.raised)
           /\ overflowAt' = IF r.raised /\ ~overflow THEN r.at ELSE overflowAt
           /\ IF r.raised /\ ~Handled("OverflowError")
              THEN /\ result' = [kind |-> "OverflowError"]
                   /\ pc' = "done"
                   /\ idx' = idx
              ELSE /\ idx' = LoopAfter(r.raised, idx, Len(box.texts))
                   /\ UNCHANGED <<pc, result>>
    /\ UNCHANGED <<box, cursor, bounds, originArg, prev, env>>

\* TextBox.render, after the loop: bottom_right = bounds.bottom_right.copy(),
\* its y recomputed from the cursor when the box has no height
RenderEnd ==
    /\ pc = "render"
    /\ idx > Len(box.texts)
    /\ LET h0 == [heap EXCEPT !["corner"] = RectBottomRight(heap, bounds)]
           c == PointCopy(h0, "corner", "bottom_right")
       IN  IF box.height = 0
           THEN IF Len(box.texts) = 0
                THEN /\ heap' = c.heap
                     /\ result' = [kind |-> "IndexError"]
                ELSE LET last == LastText(box.texts)
                         y == c.heap[cursor].y
                                + Size(fonts[last.font], last.font, <<" ">>).h
                         h1 == [c.heap EXCEPT ![c.ref].y = y]
                     IN  /\ heap' = h1
                         /\ result' = [kind |-> "return", x |-> h1[c.ref].x,
                                                          y |-> h1[c.ref].y]
           ELSE /\ heap' = c.heap
                /\ result' = [kind |-> "return", x |-> c.heap[c.ref].x,
                                                 y |-> c.heap[c.ref].y]
    /\ pc' = "done"
    /\ UNCHANGED <<box, cursor, bounds, fonts, screen, idx, overflow,
                   overflowAt, originArg, prev, env>>

Next ==
    \/ \E text \in Strings(MaxContent - 1 - ContentSize(box.texts)),
          font \in Fonts \cup {NoFont}, style \in Styles : Add(text, font, style)
    \/ \E origin \in Origins : RenderBegin(origin)
    \/ RenderText
    \/ RenderEnd

Spec == Init /\ [][Next]_vars

\* ---------------------------------------------------------- worked example
\* Boxes around the example of the specification: one segment of n words
\* in the font "card", widths around four words, indent 0 or 20.
MaxWords == 4

ExampleWidths == {130, 140, 200, 210, 260}

RECURSIVE WordsText(_)
WordsText(n) == IF n <= 1 THEN <<"a">> ELSE WordsText(n - 1) \o <<" ", "a">>

InitExample ==
    /\ box \in [width : ExampleWidths, height : {0}, line_height : LineHeights,
                indent : {0, 20}, texts : {<<>>}, font : {"card"}]
    /\ heap = [o \in {"origin", "cursor", "corner", "bottom_right"} |-> None]
    /\ cursor = "none"
    /\ bounds = None
    /\ fonts = [f \in {"card"} |-> Plain]
    /\ screen = <<>>
    /\ pc = "build"
    /\ idx = 0
    /\ overflow = FALSE
    /\ overflowAt = None
    /\ result = None
    /\ originArg = None
    /\ prev = None
    /\ env = None

\* TextBox.add of one segment of n words
AddWords(n) ==
    /\ box.texts = <<>>
    /\ TextBoxAdd(WordsText(n), NoFont, Plain)

NextExample ==
    \/ \E n \in 1..MaxWords : AddWords(n)
    \/ \E origin \in Origins : RenderBegin(origin)
    \/ RenderText
    \/ RenderEnd

SpecExample == InitExample /\ [][NextExample]_vars

\* ---------------------------------------------------- geometry operations
\* A caller of geometry.py: two names p and q bound to Points, and a
\* Rectangle whose top_left is the Point p names at first.
MaxOps == 3

Coords == {0, 1}

InitGeometry ==
    /\ \E px, py, qx, qy \in Coords :
          heap = [o \in {"p", "q", "new", "corner"} |->
                    IF o = "p" THEN [x |-> px, y |-> py]
                    ELSE IF o = "q" THEN [x |-> qx, y |-> qy] ELSE None]
    /\ \E h \in {0, 3} :
          env = [p |-> "p", q |-> "q", rect |-> Rectangle("p", 2, h),
                 read |-> None, last |-> "none", ops |-> 0]
    /\ box = None
    /\ cursor = "none"
    /\ bounds = None
    /\ fonts = None
    /\ screen = <<>>
    /\ pc = "geometry"
    /\ idx = 0
    /\ overflow = FALSE
    /\ overflowAt = None
    /\ result = None
    /\ originArg = None
    /\ prev = None

GeoFrame ==
    UNCHANGED <<box, cursor, bounds, fonts, screen, pc, idx, overflow,
                overflowAt, result, originArg, prev>>

GeoReady == pc = "geometry" /\ env.ops < MaxOps

\* p += q
GeoIAdd ==
    /\ GeoReady /\ env.p # "None"
    /\ LET r == PointIAdd(heap, env.p, env.q)
       IN  /\ heap' = r.heap
           /\ env' = [env EXCEPT !.p = r.ref, !.last = "iadd", !.ops = @ + 1]
    /\ GeoFrame

\* p -= q
GeoISub ==
    /\ GeoReady /\ env.p # "None"
    /\ LET r == PointISub(heap, env.p, env.q)
       IN  /\ heap' = r.heap
           /\ env' = [env EXCEPT !.p = r.ref, !.last = "isub", !.ops = @ + 1]
    /\ GeoFrame

\* p = p + q
GeoAdd ==
    /\ GeoReady /\ env.p # "None"
    /\ LET r == PointAdd(heap, env.p, env.q, "new")
       IN  /\ heap' = r.heap
           /\ env' = [env EXCEPT !.p = r.ref, !.last = "add", !.ops = @ + 1]
    /\ GeoFrame

\* p = p - q
GeoSub ==
    /\ GeoReady /\ env.p # "None"
    /\ LET r == PointSub(heap, env.p, env.q, "new")
       IN  /\ heap' = r.heap
           /\ env' = [env EXCEPT !.p = r.ref, !.last = "sub", !.ops = @ + 1]
    /\ GeoFrame

\* rect.top_left = q
GeoReplaceTopLeft ==
    /\ GeoReady
    /\ env' = [env EXCEPT !.rect.top_left = env.q, !.last = "replace",
                          !.ops = @ + 1]
    /\ UNCHANGED heap
    /\ GeoFrame

\* rect.top_left.x += q.x; rect.top_left.y += q.y
GeoMoveTopLeft ==
    /\ GeoReady /\ env.rect.top_left # "None"
    /\ heap' = [heap EXCEPT ![env.rect.top_left] =
                    [x |-> @.x + heap[env.q].x, y |-> @.y + heap[env.q].y]]
    /\ env' = [env EXCEPT !.last = "move", !.ops = @ + 1]
    /\ GeoFrame

\* rect.top_left += q
GeoTranslateTopLeft ==
    /\ GeoReady /\ env.rect.top_left # "None"
    /\ LET r == PointIAdd(heap, env.rect.top_left, env.q)
       IN  /\ heap' = r.heap
           /\ env' = [env EXCEPT !.rect.top_left = r.ref,
                                 !.last = "translate", !.ops = @ + 1]
    /\ GeoFrame

\* c = rect.bottom_right (an AttributeError when top_left is None)
GeoReadBottomRight ==
    /\ GeoReady
    /\ IF env.rect.top_left = "None"
       THEN /\ env' = [env EXCEPT !.read = [kind |-> "AttributeError"],
                                  !.last = "read", !.ops = @ + 1]
            /\ UNCHANGED heap
       ELSE /\ heap' = [heap EXCEPT !["corner"] =
                            RectBottomRight(heap, env.rect)]
            /\ env' = [env EXCEPT !.read = [kind |-> "point", ref |-> "corner"],
                                  !.last = "read", !.ops = @ + 1]
    /\ GeoFrame

NextGeometry ==
    \/ GeoIAdd
    \/ GeoISub
    \/ GeoAdd
    \/ GeoSub
    \/ GeoReplaceTopLeft
    \/ GeoMoveTopLeft
    \/ GeoTranslateTopLeft
    \/ GeoReadBottomRight

SpecGeometry == InitGeometry /\ [][NextGeometry]_vars

\* ------------------------------------------------------- card composition
\* TextBox.render as one call: the segments in order under the try, then
\* the bottom-right corner; an empty box without height raises IndexError
RECURSIVE RenderTexts(_, _, _, _, _)
RenderTexts(r, b, i, cur, bnds) ==
    IF i > Len(b.texts) THEN r
    ELSE CHOOSE out \in
            {RenderTexts(r1, b, LoopAfter(r1.raised, i, Len(b.texts)), cur, bnds) :
                r1 \in {TextRender(r, b.texts[i], i, cur, bnds,
                                   b.line_height, b.indent)}} : TRUE

BoxRender(b, origin, fs) ==
    LET h0 == [o \in {"origin", "cursor", "corner", "bottom_right"} |->
                  IF o = "origin" THEN origin ELSE None]
        c == PointCopy(h0, "origin", "cursor")
        bnds == Rectangle("origin", b.width, b.height)
        Finish(r) ==
            LET corner == RectBottomRight(r.heap, bnds)
            IN  IF b.height = 0
                THEN IF Len(b.texts) = 0
                     THEN [kind |-> "IndexError", fonts |-> r.fonts,
                           screen |-> r.screen]
                     ELSE LET last == LastText(b.texts)
                          IN  [kind |-> "return", x |-> corner.x,
                               y |-> r.heap[c.ref].y
                                  + Size(r.fonts[last.font], last.font, <<" ">>).h,
                               fonts |-> r.fonts, screen |-> r.screen]
                ELSE [kind |-> "return", x |-> corner.x, y |-> corner.y,
                      fonts |-> r.fonts, screen |-> r.screen]
    IN  CHOOSE out \in
            {Finish(r) :
                r \in {RenderTexts([heap |-> c.heap, fonts |-> fs,
                                    screen |-> <<>>, raised |-> FALSE,
                                    at |-> None], b, 1, c.ref, bnds)}} : TRUE

\* The part of the notecard routine that lays out the two columns and the
\* instructions below them.  Lengths are scaled down: the card is 8 or 12
\* wide, margin and spacing are 1, the hanging indent is 1.
MaxIngredients == 2

CardWidths == {8, 12}
CardMargin == 1
CardSpacing == 1
CardIndent == 1
CardLineHeight == 1
CardStartY == 2

\* the recipes the routine is given: ingredients with or without quantity,
\* unit and suggestion, the optional detail fields, the instructions
CardIngredient == [quantity : {0, 2}, unit : {"none", "a"}, suggested : BOOLEAN]

CardRecipes ==
    [ingredients : UNION {[1..n -> CardIngredient] : n \in 0..MaxIngredients},
     yield_ : {0, 1, 2}, glass : {"none", "shot", "coupe"},
     preparation : {"none", "shaken"}, served : {"none"},
     instructions : 1..2]

Seg(text, bold, italic) ==
    [text |-> text, font |-> "body", bold |-> bold, italic |-> italic,
     underline |-> FALSE]

\* fraction(value) of a whole number: the integer and a space
FractionText(value) == IF value > 0 THEN <<"a", " ">> ELSE <<>>

\* the segments added for one ingredient
IngredientSegs(ing) ==
    LET quantity == IF ing.quantity # 0 THEN ing.quantity ELSE 1
        t0 == <<"a", " ">>
        t1 == IF ing.quantity # 0 THEN t0 \o FractionText(quantity) \o <<" ">>
              ELSE t0
        t2 == IF ing.unit # "none"
              THEN t1 \o <<"a">> \o (IF quantity > 1 THEN <<"a">> ELSE <<>>)
                      \o <<" ">>
              ELSE t1
    IN  <<Seg(t2, FALSE, FALSE), Seg(<<"a">>, TRUE, FALSE)>>
        \o (IF ing.suggested THEN <<Seg(<<" ", "a">>, FALSE, TRUE)>> ELSE <<>>)
        \o <<Seg(<<"\n">>, FALSE, FALSE)>>

RECURSIVE IngredientTexts(_, _)
IngredientTexts(ings, i) ==
    IF i > Len(ings) THEN <<>>
    ELSE IngredientSegs(ings[i]) \o IngredientTexts(ings, i + 1)

\* the segments of the details column
DetailTexts(recipe) ==
    (IF recipe.yield_ # 0
     THEN <<Seg(<<"a", " ", "a", " ">>, FALSE, FALSE), Seg(<<"a">>, FALSE, FALSE)>>
          \o (IF recipe.yield_ > 1 THEN <<Seg(<<"a">>, FALSE, FALSE)>> ELSE <<>>)
          \o <<Seg(<<"\n">>, FALSE, FALSE)>>
     ELSE <<>>)
    \o (IF recipe.preparation # "none"
        THEN <<Seg(<<"a", " ", "a", "\n">>, FALSE, FALSE)>> ELSE <<>>)
    \o (IF recipe.served # "none"
        THEN <<Seg(<<"a", " ", "a", "\n">>, FALSE, FALSE)>> ELSE <<>>)
    \o (IF recipe.glass # "none"
        THEN <<Seg(<<"a", " ", "a", " ", "a", " ", "a", "\n">>, FALSE, FALSE)>>
        ELSE <<>>)

\* the segments of the instructions: one numbered line each
InstructionTexts(n) == [i \in 1..n |-> Seg(<<"a", " ", "a", "\n">>, FALSE, FALSE)]

CardBox(width, texts) ==
    [width |-> width, height |-> 0, line_height |-> CardLineHeight,
     indent |-> CardIndent, texts |-> texts, font |-> "body"]

ColumnBottomLeft(y1, y2) == y1

\* max(y1, y2)
ColumnBottom(y1, y2) == IF y1 >= y2 THEN y1 ELSE y2

InitCard ==
    /\ \E recipe \in CardRecipes, width \in CardWidths :
          env = [recipe |-> recipe, width |-> width, y |-> CardStartY,
                 y1 |-> 0, y2 |-> 0, start |-> CardStartY, calls |-> <<>>]
    /\ box = None
    /\ heap = [o \in {"origin", "cursor", "corner", "bottom_right"} |-> None]
    /\ cursor = "none"
    /\ bounds = None
    /\ fonts = [f \in Fonts |-> Plain]
    /\ screen = <<>>
    /\ pc = "ingredients"
    /\ idx = 0
    /\ overflow = FALSE
    /\ overflowAt = None
    /\ result = None
    /\ originArg = None
    /\ prev = None

CardFrame == UNCHANGED <<heap, cursor, bounds, idx, overflow, overflowAt, prev>>

\* box.render(screen, origin) from the routine; an IndexError ends it
CardRender(name, b, origin, next) ==
    \E r \in {BoxRender(b, origin, fonts)} :
        /\ box' = b
        /\ originArg' = origin
        /\ fonts' = r.fonts
        /\ screen' = screen \o r.screen
        /\ IF r.kind = "IndexError"
           THEN /\ result' = [kind |-> "IndexError"]
                /\ pc' = "crashed"
                /\ env' = [env EXCEPT !.calls = Append(@,
                              [box |-> name, origin |-> origin, y |-> 0,
                               raised |-> TRUE])]
           ELSE /\ result' = [kind |-> "return", x |-> r.x, y |-> r.y]
                /\ pc' = next
                /\ env' = [env EXCEPT
                      !.calls = Append(@, [box |-> name, origin |-> origin,
                                           y |-> r.y, raised |-> FALSE]),
                      !.y1 = IF name = "ingredients" THEN r.y ELSE @,
                      !.y2 = IF name = "details" THEN r.y ELSE @,
                      !.y = IF name = "instructions" THEN r.y + CardSpacing ELSE @]

\* the ingredients column, on the left
CardIngredients ==
    /\ pc = "ingredients"
    /\ CardRender("ingredients",
                  CardBox(env.width \div 2,
                          IngredientTexts(env.recipe.ingredients, 1)),
                  [x |-> CardMargin, y |-> env.y], "details")
    /\ CardFrame

\* the details column, on the right, rendered only when it has segments
CardDetails ==
    /\ pc = "details"
    /\ LET details == CardBox((env.width \div 2) - CardMargin * 2,
                              DetailTexts(env.recipe))
       IN  IF Bool(details)
           THEN CardRender("details", details,
                           [x |-> (env.width \div 2) + CardMargin * 2,
                            y |-> env.y], "instructions")
           ELSE /\ env' = [env EXCEPT !.y2 = env.y]
                /\ pc' = "instructions"
                /\ UNCHANGED <<box, originArg, fonts, screen, result>>
    /\ CardFrame

\* y = max(y1, y2) + spacing, then the instructions across the card
CardInstructions ==
    /\ pc = "instructions"
    /\ CardRender("instructions",
                  CardBox(env.width - CardMargin * 2,
                          InstructionTexts(env.recipe.instructions)),
                  [x |-> CardMargin,
                   y |-> ColumnBottom(env.y1, env.y2) + CardSpacing], "card_done")
    /\ CardFrame

NextCard ==
    \/ CardIngredients
    \/ CardDetails
    \/ CardInstructions

SpecCard == InitCard /\ [][NextCard]_vars

\* ------------------------------------------------------------------ search
\* The search commands over the loaded recipes.  A recipe is its title and
\* the names of its ingredients; titles are numbers standing for strings
\* in their sort order.
MaxRecipes == 2

Titles == {1, 2}
Names == {<<"G", " ">>, <<"g", "i">>}
Terms == {<<"g">>, <<"I">>}
Thresholds == {0, 1}

SeqsUpTo(S, n) == UNION {[1..k -> S] : k \in 0..n}

RecipeSet == [title : Titles, ingredients : SeqsUpTo(Names, 2)]

\* str.lower
Lower(s) ==
    [k \in 1..Len(s) |-> IF s[k] = "G" THEN "g"
                         ELSE IF s[k] = "I" THEN "i" ELSE s[k]]

\* str.strip
RECURSIVE Strip(_)
Strip(s) ==
    IF s = <<>> THEN s
    ELSE IF s[1] = " " THEN Strip(Tail(s))
    ELSE IF s[Len(s)] = " " THEN Strip(SubSeq(s, 1, Len(s) - 1))
    ELSE s

\* `sub in s` for strings
Contains(sub, s) ==
    \E i \in 0..(Len(s) - Len(sub)) : SubSeq(s, i + 1, i + Len(sub)) = sub

\* RecipeScore.__init__: the ingredients no possibility equals
RecipeScore(recipe, possibilities, src) ==
    [recipe |-> recipe, src |-> src,
     missing |-> SelectSeq(recipe.ingredients,
                    LAMBDA ingredient :
                        ~\E t \in 1..Len(possibilities) :
                            Strip(Lower(possibilities[t]))
                                = Strip(Lower(ingredient)))]

\* RecipeScore.score
Score(rs) == Len(rs.recipe.ingredients) - Len(rs.missing)

KeepBelowThreshold(rs, missing) == Len(rs.missing) < missing

\* `len(score.missing) <= missing`
KeepScore(rs, missing) == Len(rs.missing) <= missing

\* the order of the sort key (score, title)
KeyLeq(a, b) ==
    \/ Score(a) < Score(b)
    \/ Score(a) = Score(b) /\ a.recipe.title <= b.recipe.title

\* list.sort: stable, ascending
RECURSIVE InsertSorted(_, _)
InsertSorted(sorted, e) ==
    IF sorted = <<>> THEN <<e>>
    ELSE IF KeyLeq(sorted[Len(sorted)], e) THEN Append(sorted, e)
    ELSE Append(InsertSorted(SubSeq(sorted, 1, Len(sorted) - 1), e),
                sorted[Len(sorted)])

RECURSIVE SortScores(_, _)
SortScores(scores, n) ==
    IF n = 0 THEN <<>> ELSE InsertSorted(SortScores(scores, n - 1), scores[n])

\* one pass of the filter loop: the recipes with an ingredient whose name
\* contains the term
FilterContains(recipes, contains) ==
    SelectSeq(recipes,
        LAMBDA rs : \E k \in 1..Len(rs.recipe.ingredients) :
                        Contains(Lower(contains), Lower(rs.recipe.ingredients[k])))

RECURSIVE FilterAll(_, _, _)
FilterAll(recipes, terms, i) ==
    IF i > Len(terms) THEN recipes
    ELSE FilterAll(FilterContains(recipes, terms[i]), terms, i + 1)

\* the loaded recipes, each with its position in the load order
Loaded(recipes) == [k \in 1..Len(recipes) |-> [recipe |-> recipes[k], src |-> k]]

InitSearch ==
    /\ \E recipes \in SeqsUpTo(RecipeSet, MaxRecipes),
          ingredients \in SeqsUpTo(Terms, 2), missing \in Thresholds :
          env = [recipes |-> recipes, ingredients |-> ingredients,
                 missing |-> missing, cmd |-> "none", out |-> None]
    /\ box = None
    /\ heap = None
    /\ cursor = "none"
    /\ bounds = None
    /\ fonts = None
    /\ screen = <<>>
    /\ pc = "search"
    /\ idx = 0
    /\ overflow = FALSE
    /\ overflowAt = None
    /\ result = None
    /\ originArg = None
    /\ prev = None

SearchFrame ==
    UNCHANGED <<box, heap, cursor, bounds, fonts, screen, idx, overflow,
                overflowAt, result, originArg, prev>>

\* search.py, search without --all: score, drop, sort, print
SearchScored ==
    /\ pc = "search"
    /\ LET scores == [k \in 1..Len(env.recipes) |->
                         RecipeScore(env.recipes[k], env.ingredients, k)]
           kept == SelectSeq(scores, LAMBDA rs : KeepScore(rs, env.missing))
           sorted == SortScores(kept, Len(kept))
       IN  env' = [env EXCEPT !.cmd = "scored",
                      !.out = [kind |-> "listed",
                               list |-> [i \in 1..Len(sorted) |->
                                   [src |-> sorted[i].src,
                                    title |-> sorted[i].recipe.title,
                                    score |-> Score(sorted[i]),
                                    missing |-> sorted[i].missing]]]]
    /\ pc' = "searched"
    /\ SearchFrame

\* search.py, search --all: the filter loop, then the summary line that
\* joins the loop variable `contains`, unbound when no term was given
SearchAll ==
    /\ pc = "search"
    /\ LET found == FilterAll(Loaded(env.recipes), env.ingredients, 1)
       IN  env' = [env EXCEPT !.cmd = "all",
                      !.out = IF Len(env.ingredients) = 0
                              THEN [kind |-> "UnboundLocalError"]
                              ELSE [kind |-> "listed",
                                    list |-> [i \in 1..Len(found) |->
                                        [src |-> found[i].src,
                                         title |-> found[i].recipe.title]]]]
    /\ pc' = "searched"
    /\ SearchFrame

\* main.py, search -c: the same filter loop; the summary joins the tuple
SearchContains ==
    /\ pc = "search"
    /\ LET found == FilterAll(Loaded(env.recipes), env.ingredients, 1)
       IN  env' = [env EXCEPT !.cmd = "contains",
                      !.out = [kind |-> "listed",
                               list |-> [i \in 1..Len(found) |->
                                   [src |-> found[i].src,
                                    title |-> found[i].recipe.title]]]]
    /\ pc' = "searched"
    /\ SearchFrame

NextSearch ==
    \/ SearchScored
    \/ SearchAll
    \/ SearchContains

SpecSearch == InitSearch /\ [][NextSearch]_vars

\* ------------------------------------------------------ ingredients command
\* The ingredients command over the recipe documents it is given.  Names
\* and titles are numbers standing for strings in their sort order.
IngredientNames == {1, 2}

Documents == [title : Titles, ingredients : SeqsUpTo(IngredientNames, 2)]

\* the loop over one recipe's ingredients: a new name gets an empty list,
\* then the title is appended
RECURSIVE Aggregate(_, _, _, _)
Aggregate(ingredients, names, i, title) ==
    IF i > Len(names) THEN ingredients
    ELSE LET name == names[i]
             known == IF name \in DOMAIN ingredients THEN ingredients
                      ELSE [n \in DOMAIN ingredients \cup {name} |->
                               IF n = name THEN <<>> ELSE ingredients[n]]
         IN  Aggregate([known EXCEPT ![name] = Append(@, title)],
                       names, i + 1, title)

\* sorted(keys)
RECURSIVE Sorted(_)
Sorted(S) ==
    IF S = {} THEN <<>>
    ELSE LET least == CHOOSE n \in S : \A o \in S : n <= o
         IN  <<least>> \o Sorted(S \ {least})

InitIngredients ==
    /\ \E recipes \in SeqsUpTo(Documents, MaxRecipes) :
          env = [recipes |-> recipes, ingredients |-> << >>, out |-> <<>>]
    /\ box = None
    /\ heap = None
    /\ cursor = "none"
    /\ bounds = None
    /\ fonts = None
    /\ screen = <<>>
    /\ pc = "aggregate"
    /\ idx = 1
    /\ overflow = FALSE
    /\ overflowAt = None
    /\ result = None
    /\ originArg = None
    /\ prev = None

IngredientsFrame ==
    UNCHANGED <<box, heap, cursor, bounds, fonts, screen, overflow,
                overflowAt, result, originArg, prev>>

\* one iteration of `for yaml in recipes`
IngredientsRecipe ==
    /\ pc = "aggregate"
    /\ idx <= Len(env.recipes)
    /\ env' = [env EXCEPT !.ingredients =
                  Aggregate(@, env.recipes[idx].ingredients, 1,
                            env.recipes[idx].title)]
    /\ idx' = idx + 1
    /\ UNCHANGED pc
    /\ IngredientsFrame

\* the listing: one line per name, in sorted order, with its recipes
IngredientsList ==
    /\ pc = "aggregate"
    /\ idx > Len(env.recipes)
    /\ LET keys == Sorted(DOMAIN env.ingredients)
       IN  env' = [env EXCEPT !.out =
                      [i \in 1..Len(keys) |->
                          [ingredient |-> keys[i],
                           recipes |-> env.ingredients[keys[i]]]]]
    /\ pc' = "listed"
    /\ UNCHANGED idx
    /\ IngredientsFrame

NextIngredients ==
    \/ IngredientsRecipe
    \/ IngredientsList

SpecIngredients == InitIngredients /\ [][NextIngredients]_vars

\* ------------------------------------------------------------ recipe model
\* Values of the recipe documents: a missing key, None, a string (numbers
\* are written as strings) or a member of an enumeration.
Absent == [t |-> "absent"]
NoneValue == [t |-> "None"]
Str(v) == [t |-> "str", v |-> v]
Member(enum, v) == [t |-> "enum", enum |-> enum, v |-> v]

\* bool(value)
Truthy(value) ==
    \/ value.t = "enum"
    \/ value.t = "str" /\ value.v \notin {"", "0"}

\* data.get(key)
Get(value) == IF value = Absent THEN NoneValue ELSE value

\* Enum(data[key]) if key in data else None
EnumOrNone(enum, value) ==
    IF value # Absent THEN Member(enum, value.v) ELSE NoneValue

IngredientDicts ==
    [ingredient : {Str("gin")}, unit : {Absent, Str("ounce")},
     quantity : {Absent, Str("2")}, notes : {Absent, Str("n")},
     suggested : {Absent}, examples : {<<>>}]

RecipeDicts ==
    [title : {Str("a")}, version : {Str("1")},
     ingredients : SeqsUpTo(IngredientDicts, 1),
     instructions : {<<Str("i")>>},
     description : {Absent, Str("d")}, source : {Absent}, author : {Absent},
     yield : {Absent, Str("2")}, preparation : {Absent, Str("shaken")},
     served : {Absent}, glass : {Absent, Str("coupe")}, notes : {Absent}]

\* Ingredient.from_dict
IngredientFromDict(data) ==
    [ingredient |-> data.ingredient,
     unit |-> EnumOrNone("Unit", data.unit),
     quantity |-> Get(data.quantity),
     notes |-> Get(data.notes),
     suggested |-> Get(data.suggested),
     examples |-> data.examples]

\* Recipe.from_dict; a document that is None cannot be subscripted
RecipeFromDict(data) ==
    IF data = NoneValue THEN [kind |-> "TypeError"]
    ELSE [kind |-> "recipe",
          value |->
            [title |-> data.title, version |-> data.version,
             ingredients |-> [i \in 1..Len(data.ingredients) |->
                                 IngredientFromDict(data.ingredients[i])],
             instructions |-> data.instructions,
             description |-> Get(data.description),
             source |-> Get(data.source),
             author |-> Get(data.author),
             yield_ |-> Get(data.yield),
             preparation |-> EnumOrNone("Preparation", data.preparation),
             served |-> EnumOrNone("Served", data.served),
             glass |-> EnumOrNone("Glass", data.glass),
             notes |-> Get(data.notes)]]

\* Ingredient.to_dict: the attributes are visited in order; a unit is an
\* Enum whose value (a string) is called; the last attribute name is
\* 'examples]', which no Ingredient has
IngredientToDict(self) ==
    IF Truthy(self.unit) THEN [kind |-> "TypeError"]
    ELSE [kind |-> "AttributeError"]

\* Recipe.to_dict: the ingredients first, then the optional fields; the
\* value of an enumeration member is called; there is no return statement
RecipeToDict(self) ==
    IF Len(self.ingredients) > 0 THEN IngredientToDict(self.ingredients[1])
    ELSE IF Truthy(self.preparation) \/ Truthy(self.served) \/ Truthy(self.glass)
    THEN [kind |-> "TypeError"]
    ELSE [kind |-> "return", value |-> NoneValue]

InitModel ==
    /\ \E data \in RecipeDicts :
          env = [data |-> data, r |-> None, d |-> None, back |-> None]
    /\ box = None
    /\ heap = None
    /\ cursor = "none"
    /\ bounds = None
    /\ fonts = None
    /\ screen = <<>>
    /\ pc = "document"
    /\ idx = 0
    /\ overflow = FALSE
    /\ overflowAt = None
    /\ result = None
    /\ originArg = None
    /\ prev = None

ModelFrame ==
    UNCHANGED <<box, heap, cursor, bounds, fonts, screen, idx, overflow,
                overflowAt, result, originArg, prev>>

\* r = Recipe.from_dict(data)
FromDict ==
    /\ pc = "document"
    /\ env' = [env EXCEPT !.r = RecipeFromDict(env.data).value]
    /\ pc' = "recipe"
    /\ ModelFrame

\* d = r.to_dict()
ToDict ==
    /\ pc = "recipe"
    /\ env' = [env EXCEPT !.d = RecipeToDict(env.r)]
    /\ pc' = "written"
    /\ ModelFrame

\* Recipe.from_dict(d); an exception of to_dict is what the caller gets
ReadBack ==
    /\ pc = "written"
    /\ env' = [env EXCEPT !.back = IF env.d.kind = "return"
                                   THEN RecipeFromDict(env.d.value)
                                   ELSE env.d]
    /\ pc' = "read"
    /\ ModelFrame

NextModel ==
    \/ FromDict
    \/ ToDict
    \/ ReadBack

SpecModel == InitModel /\ [][NextModel]_vars

\* -------------------------------------------------------- notecard command
\* The notecard command over the recipe files it is given: for each file
\* the card is composed and written to a PDF, then shown when asked.  A
\* path is a sequence of name parts; no --output is the empty path.
MaxFiles == 2
MaxEvents == 2

RecipeFiles == [dir : {"", "d/"}, stem : {"a", "b"}, ext : {".yaml"}]
OutputArgs == {<<>>, <<"o">>, <<"o", ".pdf">>}
Events == {"QUIT", "K_q", "K_n", "K_other"}

\* os.path.splitext(os.path.basename(filename))[0]
Stem(filename) == <<filename.stem>>

\* output.endswith('.pdf')
EndsWithPdf(output) == Len(output) > 0 /\ output[Len(output)] = ".pdf"

\* the path the PDF is written to, from the current value of `output`
OutputPath(output, filename) ==
    LET named == IF output = <<>> THEN Stem(filename) ELSE output
    IN  IF EndsWithPdf(named) THEN named ELSE Append(named, ".pdf")

InitNotecard ==
    /\ \E files \in UNION {[1..n -> RecipeFiles] : n \in 1..MaxFiles},
          output \in OutputArgs, show \in BOOLEAN :
          env = [files |-> files, arg |-> output, output |-> output,
                 show |-> show, showing |-> TRUE, k |-> 1, written |-> <<>>,
                 event |-> "none", handled |-> 0, status |-> "running"]
    /\ box = None
    /\ heap = None
    /\ cursor = "none"
    /\ bounds = None
    /\ fonts = None
    /\ screen = <<>>
    /\ pc = "compose"
    /\ idx = 0
    /\ overflow = FALSE
    /\ overflowAt = None
    /\ result = None
    /\ originArg = None
    /\ prev = None

NotecardFrame ==
    UNCHANGED <<box, heap, cursor, bounds, fonts, screen, idx, overflow,
                overflowAt, result, originArg, prev>>

\* one recipe file: the card, then the PDF under the name in `output`,
\* which is assigned when empty and stays assigned for the next file
NotecardWrite ==
    /\ pc = "compose"
    /\ env.k <= Len(env.files)
    /\ LET path == OutputPath(env.output, env.files[env.k])
       IN  env' = [env EXCEPT
                      !.output = path,
                      !.written = Append(@, [recipe |-> env.k, path |-> path]),
                      !.k = IF env.show THEN @ ELSE @ + 1]
    /\ pc' = IF env.show THEN "viewing" ELSE "compose"
    /\ NotecardFrame

\* the loops are exhausted: the command returns
NotecardEnd ==
    /\ pc = "compose"
    /\ env.k > Len(env.files)
    /\ env' = [env EXCEPT !.status = "None"]
    /\ pc' = "end"
    /\ NotecardFrame

\* one event in `while show`: QUIT and Q return 0; N assigns the local
\* `showing`, which the loop condition does not read
ViewEvent(event) ==
    /\ pc = "viewing"
    /\ env.handled < MaxEvents
    /\ IF event \in {"QUIT", "K_q"}
       THEN /\ env' = [env EXCEPT !.event = event, !.handled = @ + 1,
                                  !.status = "0"]
            /\ pc' = "exit"
       ELSE /\ env' = [env EXCEPT !.event = event, !.handled = @ + 1,
                                  !.showing = IF event = "K_n" THEN FALSE ELSE @]
            /\ pc' = IF env.show THEN "viewing" ELSE "compose"
    /\ NotecardFrame

NextNotecard ==
    \/ NotecardWrite
    \/ NotecardEnd
    \/ \E event \in Events : ViewEvent(event)

SpecNotecard == InitNotecard /\ [][NextNotecard]_vars

\* ------------------------------------------------ styled segments, re-render
\* Segments that differ in style on the box's one font object, and a
\* second call of render on the same box with the same origin.
StyleWidths == {3}

InitStyle ==
    /\ box \in [width : StyleWidths, height : {0}, line_height : {1},
                indent : Indents, texts : {<<>>}, font : {"body"}]
    /\ Idle

\* TextBox.render called again: same box, same origin, same surface
RenderAgain ==
    /\ pc = "done"
    /\ prev = None
    /\ result.kind = "return"
    /\ prev' = [screen |-> screen, result |-> result]
    /\ LET c == PointCopy(heap, "origin", "cursor")
       IN  /\ heap' = c.heap
           /\ cursor' = c.ref
    /\ bounds' = Rectangle("origin", box.width, box.height)
    /\ screen' = <<>>
    /\ overflow' = FALSE
    /\ overflowAt' = None
    /\ result' = None
    /\ idx' = 1
    /\ pc' = "render"
    /\ UNCHANGED <<box, fonts, originArg, env>>

NextStyle ==
    \/ \E text \in Strings(MaxContent - 1 - ContentSize(box.texts)),
          style \in {Plain, BoldStyle} : Add(text, NoFont, style)
    \/ \E origin \in Origins : RenderBegin(origin)
    \/ RenderText
    \/ RenderEnd
    \/ RenderAgain

SpecStyle == InitStyle /\ [][NextStyle]_vars

\* ---------------------------------------------------------------- helpers
Rendering == pc \in {"render", "done"}

IsWord(i) == screen[i].kind = "word"

\* the line advance of the segment an entry of the screen belongs to
Advance(e) == box.line_height * FontHeight(box.texts[e.seg].font)

\* the entry was drawn somewhere else than where the cursor reached it
Moved(e) == e.x # e.x0 \/ e.y # e.y0

\* the last word drawn before entry i (0 when there is none)
PrevWord(i) ==
    LET js == {j \in 1..(i - 1) : IsWord(j)}
    IN  IF js = {} THEN 0 ELSE CHOOSE j \in js : \A k \in js : k <= j

\* ---------------------------------------------------------------------- C1
\* C1: a word is wrapped (drawn at bounds.left + indent, one line advance
\* further down) exactly when cursor.x - bounds.left + word_width exceeds
\* bounds.width as the word is reached; otherwise, equality included, it is
\* drawn where the cursor stood.
WrapBeforeNonFittingWord ==
    \A i \in 1..Len(screen) :
        LET e == screen[i]
        IN  IsWord(i) =>
                IF e.x0 - originArg.x + e.width > box.width
                THEN e.x = originArg.x + box.indent /\ e.y = e.y0 + Advance(e)
                ELSE e.x = e.x0 /\ e.y = e.y0

\* one word fills its line exactly and stays, another one is wrapped
WrapWitness ==
    /\ pc = "done"
    /\ \E i \in 1..Len(screen) :
            /\ IsWord(i)
            /\ screen[i].x0 - originArg.x + screen[i].width = box.width
            /\ screen[i].width > 0
            /\ ~Moved(screen[i])
    /\ \E i \in 1..Len(screen) :
            /\ IsWord(i)
            /\ screen[i].x0 - originArg.x + screen[i].width > box.width
            /\ Moved(screen[i])

\* ---------------------------------------------------------------------- C2
\* C2: the first word after an explicit newline is reached at
\* cursor.x = bounds.left, one line advance below the word before it, and
\* a wrapped word is drawn at bounds.left + indent, one line advance below
\* where it was reached.
IndentAsymmetry ==
    \A i \in 1..Len(screen) :
        LET e == screen[i]
        IN  IsWord(i) =>
                /\ (e.line > 1 /\ e.word = 1) =>
                        /\ e.x0 = originArg.x
                        /\ i > 1
                        /\ IsWord(i - 1)
                        /\ screen[i - 1].seg = e.seg
                        /\ screen[i - 1].line = e.line - 1
                        /\ e.y0 = screen[i - 1].y + Advance(e)
                /\ Moved(e) =>
                        /\ e.x = originArg.x + box.indent
                        /\ e.y = e.y0 + Advance(e)

\* with a non-zero indent, one word follows an explicit newline and is not
\* wrapped, another one is wrapped
IndentWitness ==
    /\ pc = "done"
    /\ box.indent > 0
    /\ \E i \in 1..Len(screen) :
            /\ IsWord(i) /\ screen[i].line > 1 /\ screen[i].word = 1
            /\ ~Moved(screen[i]) /\ screen[i].x = originArg.x
    /\ \E i \in 1..Len(screen) : IsWord(i) /\ Moved(screen[i])

\* ---------------------------------------------------------------------- C3
WordYs == {screen[i].y : i \in {j \in 1..Len(screen) : IsWord(j)}}

\* the layout of the same segments from the same origin in a box of height
\* `height`: the loop of TextBox.render as one fold
RECURSIVE LayoutFrom(_, _, _)
LayoutFrom(r, i, bnds) ==
    IF r.raised \/ i > Len(box.texts) THEN r
    ELSE LayoutFrom(TextRender(r, box.texts[i], i, "cursor", bnds,
                               box.line_height, box.indent), i + 1, bnds)

LinesNeeded ==
    LET h == [o \in {"origin", "cursor"} |-> originArg]
        r == LayoutFrom([heap |-> h, fonts |-> [f \in Fonts |-> Plain],
                         screen |-> <<>>, raised |-> FALSE, at |-> None],
                        1, Rectangle("origin", box.width, 0))
    IN  Cardinality({r.screen[i].y :
                        i \in {j \in 1..Len(r.screen) : r.screen[j].kind = "word"}})

\* the box is N line advances of its segments' common font high
FitsLines(n) ==
    /\ Bool(box)
    /\ \A i \in 1..Len(box.texts) : box.texts[i].font = box.texts[1].font
    /\ box.height = n * box.line_height * FontHeight(box.texts[1].font)

\* C3: a box whose height is N line advances and whose content needs N+1
\* lines is rendered with words on exactly N lines, and render returns.
OverflowTruncatesToNLines ==
    \A n \in 1..box.height :
        (pc = "done" /\ FitsLines(n) /\ LinesNeeded = n + 1) =>
            /\ result.kind = "return"
            /\ Cardinality(WordYs) = n

\* ---------------------------------------------------------------------- C4
\* entry e was drawn before the place where the overflow was signalled
Before(e, at) ==
    \/ e.seg < at.seg
    \/ e.seg = at.seg /\ e.line < at.line
    \/ e.seg = at.seg /\ e.line = at.line /\ e.word < at.word

\* C4: once a segment has signalled overflow nothing more is drawn, nothing
\* on the screen comes from the overflowing word or from anything after it,
\* and render returns a point instead of raising.
OverflowStopsDrawing ==
    [][ /\ overflow => screen' = screen
        /\ overflow' => \A i \in 1..Len(screen') : Before(screen'[i], overflowAt')
        /\ (overflow' /\ pc' = "done") => result'.kind = "return" ]_vars

\* the overflow came before the last segment, and the render has returned
OverflowStopsWitness ==
    /\ pc = "done"
    /\ overflow
    /\ overflowAt.seg < Len(box.texts)
    /\ Len(screen) > 0

\* ---------------------------------------------------------------------- C5
\* C5: after an overflow the returned point is the nominal bottom-right
\* corner (origin.x + width, origin.y + height).
OverflowReturnsNominalCorner ==
    (pc = "done" /\ overflow) =>
        result = [kind |-> "return", x |-> originArg.x + box.width,
                                     y |-> originArg.y + box.height]

\* an overflow after some words were drawn on more than one line
OverflowCornerWitness ==
    /\ pc = "done"
    /\ overflow
    /\ Cardinality(WordYs) > 1
    /\ heap[cursor].x # originArg.x

\* ---------------------------------------------------------------------- C6
\* the bottom of the line of the last word drawn (the top when none was)
DrawnExtent ==
    LET j == PrevWord(Len(screen) + 1)
    IN  IF j = 0 THEN originArg.y
        ELSE screen[j].y + FontHeight(box.texts[screen[j].seg].font)

\* C6 as stated: after an overflow the returned y is the extent of the text
\* drawn so far, derived from the cursor (cursor.y plus a line of the font
\* of the last segment or of the overflowing segment, or the bottom of the
\* last line drawn).
OverflowReturnsOccupiedExtent ==
    (pc = "done" /\ overflow) =>
        /\ result.kind = "return"
        /\ result.y \in
              { heap[cursor].y + FontHeight(LastText(box.texts).font),
                heap[cursor].y + FontHeight(box.texts[overflowAt.seg].font),
                DrawnExtent }

\* C6 as amended: after an overflow render returns, never raises, and the
\* returned y is bounds.bottom, strictly below the line of every word drawn
\* and not above the line the cursor had reached.
OverflowReturnsBoundsBottom ==
    (pc = "done" /\ overflow) =>
        /\ result.kind = "return"
        /\ result.y = RectBottom(heap, bounds)
        /\ \A i \in 1..Len(screen) :
              screen[i].y + FontHeight(box.texts[screen[i].seg].font) < result.y
        /\ result.y <= heap[cursor].y + FontHeight(box.texts[overflowAt.seg].font)

\* an overflow whose returned y is no extent of the drawn text
OverflowBottomWitness ==
    /\ pc = "done"
    /\ overflow
    /\ Len(screen) > 0
    /\ result.y > DrawnExtent
    /\ result.y < heap[cursor].y + FontHeight(box.texts[overflowAt.seg].font)

\* ---------------------------------------------------------------------- C7
\* C7: a non-empty box of height 0 returns y = final cursor.y + the space
\* height of the font of the last segment added.
UnboundedReturnsCursorPlusLastFont ==
    (pc = "done" /\ box.height = 0 /\ Bool(box)) =>
        /\ result.kind = "return"
        /\ result.y = heap[cursor].y
                        + FontHeight(box.texts[Len(box.texts)].font)

\* several lines, and the first and the last segment differ in font
UnboundedWitness ==
    /\ pc = "done"
    /\ box.height = 0
    /\ Len(box.texts) > 1
    /\ box.texts[1].font # box.texts[Len(box.texts)].font
    /\ Cardinality(WordYs) > 2

\* ---------------------------------------------------------------------- C8
\* the first word of a later segment, drawn where the cursor stood, on the
\* line of the last word of the segment before
FollowsOnSameLine(i) ==
    /\ IsWord(i)
    /\ screen[i].seg > 1 /\ screen[i].line = 1 /\ screen[i].word = 1
    /\ ~Moved(screen[i])
    /\ PrevWord(i) > 0
    /\ screen[PrevWord(i)].seg = screen[i].seg - 1
    /\ screen[PrevWord(i)].y = screen[i].y

\* C8 as stated: the first word of the next segment is drawn one space
\* width after the end of the last word of the segment before.
SecondSegmentAfterSpace ==
    \A i \in 1..Len(screen) :
        FollowsOnSameLine(i) =>
            LET p == screen[PrevWord(i)]
            IN  screen[i].x = p.x + p.width
                    + Size(Plain, box.texts[p.seg].font, <<" ">>).w

\* C8 as amended: the first word of the next segment is drawn exactly where
\* the last word of the segment before ends; no space is put between them.
SecondSegmentAbuts ==
    \A i \in 1..Len(screen) :
        FollowsOnSameLine(i) =>
            LET p == screen[PrevWord(i)]
            IN  /\ screen[i].x = p.x + p.width
                /\ PrevWord(i) = i - 1

\* two segments with a word each, side by side on one line
SecondSegmentWitness ==
    /\ pc = "done"
    /\ \E i \in 1..Len(screen) :
          /\ FollowsOnSameLine(i)
          /\ screen[i].width > 0
          /\ screen[PrevWord(i)].width > 0

\* ---------------------------------------------------------------------- C9
\* C9: a box without segments is falsy, and its render draws nothing and
\* returns a point, whatever its height.
EmptyBoxRenderDefined ==
    (Rendering /\ Len(box.texts) = 0) =>
        /\ ~Bool(box)
        /\ screen = <<>>
        /\ pc = "done" => result.kind = "return"

\* --------------------------------------------------------------------- C10
\* C10: during and after a render the caller's origin keeps its
\* coordinates, the cursor is another object than the origin, and
\* bounds.left and bounds.top stay at the origin.
OriginUnchanged ==
    Rendering =>
        /\ heap["origin"] = originArg
        /\ cursor # bounds.top_left
        /\ RectLeft(heap, bounds) = originArg.x
        /\ RectTop(heap, bounds) = originArg.y

\* a finished render whose cursor has left the origin's column and line
OriginWitness ==
    /\ pc = "done"
    /\ heap[cursor].x # originArg.x
    /\ heap[cursor].y # originArg.y
    /\ \E i \in 1..Len(screen) : IsWord(i) /\ Moved(screen[i])

\* --------------------------------------------------------------------- C11
\* the style flags of the segment an entry of the screen belongs to
SegStyle(e) ==
    [bold |-> box.texts[e.seg].bold, italic |-> box.texts[e.seg].italic,
     underline |-> box.texts[e.seg].underline]

\* C11: every word is measured and drawn with the font in the style of its
\* own segment (set style, then measure, then draw).
StyleSetBeforeMeasure ==
    \A i \in 1..Len(screen) :
        IsWord(i) =>
            /\ screen[i].measured = SegStyle(screen[i])
            /\ screen[i].style = SegStyle(screen[i])

\* --------------------------------------------------------------------- C12
\* the number of words of the line an entry of the screen belongs to
WordsOnLine(e) ==
    Len(Split(Split(box.texts[e.seg].text, "\n")[e.line], " "))

\* every word but the last of its line is followed by one space, drawn
\* where the word ends; the last word of a line is followed by none
OneSpaceAfterInnerWords ==
    \A i \in 1..Len(screen) :
        /\ (IsWord(i) /\ screen[i].word < WordsOnLine(screen[i])) =>
                /\ i < Len(screen)
                /\ screen[i + 1].kind = "space"
                /\ screen[i + 1].x = screen[i].x + screen[i].width
                /\ screen[i + 1].y = screen[i].y
        /\ (IsWord(i) /\ screen[i].word = WordsOnLine(screen[i])) =>
                (i < Len(screen) => IsWord(i + 1))
        /\ ~IsWord(i) => (i > 1 /\ IsWord(i - 1))

\* C12 as stated: one space after every word that is not the last of its
\* line, the cursor advanced by the width of the space glyph, and the space
\* rendered neither bold nor italic whatever the segment's style.
SpaceDrawnUnstyled ==
    /\ OneSpaceAfterInnerWords
    /\ \A i \in 1..Len(screen) :
          ~IsWord(i) =>
              /\ ~screen[i].style.bold
              /\ ~screen[i].style.italic
              /\ (i < Len(screen) /\ screen[i + 1].seg = screen[i].seg) =>
                    screen[i + 1].x0 = screen[i].x + screen[i].width

\* C12 as amended: one space after every word that is not the last of its
\* line, rendered in the style of its segment (the style set for the word
\* before it), the cursor advanced by the width the space had when the
\* segment's render began.
SpaceDrawnInSegmentStyle ==
    /\ OneSpaceAfterInnerWords
    /\ \A i \in 1..Len(screen) :
          ~IsWord(i) =>
              /\ screen[i].style = SegStyle(screen[i])
              /\ screen[i].width =
                    Size(screen[i].measured, box.texts[screen[i].seg].font,
                         <<" ">>).w
              /\ (i < Len(screen) /\ screen[i + 1].seg = screen[i].seg) =>
                    screen[i + 1].x0 = screen[i].x + screen[i].width

\* a bold segment with a space between two words, and a line end
SpaceWitness ==
    /\ pc = "done"
    /\ \E i \in 1..Len(screen) :
          /\ ~IsWord(i)
          /\ screen[i].style.bold
          /\ i < Len(screen)
          /\ screen[i + 1].width > 0
          /\ screen[i - 1].width > 0

\* --------------------------------------------------------------------- C13
\* what a render shows: what was drawn, and where
Drawn(scr) ==
    [i \in 1..Len(scr) |-> <<scr[i].kind, scr[i].text, scr[i].x, scr[i].y>>]

\* C13: a second render of the same box from the same origin draws the
\* same things at the same positions and returns the same point.
RenderIsRepeatable ==
    (pc = "done" /\ prev # None) =>
        /\ Drawn(screen) = Drawn(prev.screen)
        /\ result = prev.result

\* --------------------------------------------------------------------- C14
\* the words on the screen, as <<x, y>>
WordPositions ==
    LET ws == SelectSeq(screen, LAMBDA e : e.kind = "word")
    IN  [i \in 1..Len(ws) |-> <<ws[i].x, ws[i].y>>]

\* width 200, no height, line_height 1.0, indent 20, "Gin Tonic and Lime"
IsExample ==
    /\ box.width = 200 /\ box.height = 0
    /\ box.line_height = 1 /\ box.indent = 20
    /\ Len(box.texts) = 1
    /\ box.texts[1].font = "card"
    /\ box.texts[1].text = WordsText(4)

\* C14: in the example Gin, Tonic and "and" are drawn on line 1 ("and" ends
\* exactly at the right edge), Lime is wrapped to bounds.left + 20 one line
\* down, and the cursor ends at bounds.left + 80 on that line.
GinTonicExample ==
    (pc = "done" /\ IsExample) =>
        LET left == originArg.x
            top == originArg.y
            down == top + FontHeight("card")
        IN  /\ WordPositions = << <<left, top>>, <<left + 70, top>>,
                                 <<left + 140, top>>, <<left + 20, down>> >>
            /\ heap[cursor] = [x |-> left + 80, y |-> down]
            /\ result.kind = "return"

GinTonicWitness == pc = "done" /\ IsExample /\ Len(screen) = 7

\* --------------------------------------------------------------------- C15
\* this step is Text.render of the segment at idx, run to its end
SegmentStep == pc = "render" /\ idx <= Len(box.texts) /\ ~overflow'

\* what the step has drawn
NewEntries == SubSeq(screen', Len(screen) + 1, Len(screen'))

Count(s, c) == Cardinality({i \in 1..Len(s) : s[i] = c})

EndsWithNewline(s) == Len(s) > 0 /\ s[Len(s)] = "\n"

\* C15: a segment with k newline characters moves cursor.y down by k line
\* advances, plus one for every wrapped word; after a segment that ends in
\* a newline cursor.x is bounds.left and the (empty) last line lies one
\* advance below the word before it.
NewlinesAdvanceCursor ==
    [][ SegmentStep =>
          LET t == box.texts[idx]
              adv == box.line_height * FontHeight(t.font)
              new == NewEntries
              wraps == Cardinality({i \in 1..Len(new) :
                                      new[i].kind = "word" /\ Moved(new[i])})
          IN  /\ heap'[cursor].y =
                    heap[cursor].y + (Count(t.text, "\n") + wraps) * adv
              /\ EndsWithNewline(t.text) =>
                    /\ heap'[cursor].x = originArg.x
                    /\ Len(new) > 1
                    /\ new[Len(new)].text = <<>>
                    /\ new[Len(new)].y = new[Len(new) - 1].y + adv ]_vars

\* a word, then a newline that ends the segment, no wrap, no overflow
TrailingNewlineWitness ==
    /\ pc = "done"
    /\ ~overflow
    /\ Len(box.texts) = 1
    /\ EndsWithNewline(box.texts[1].text)
    /\ Count(box.texts[1].text, "\n") = 1
    /\ \A i \in 1..Len(screen) : ~Moved(screen[i])
    /\ screen[1].width > 0
    /\ heap[cursor] = [x |-> originArg.x,
                       y |-> originArg.y + box.line_height
                                * FontHeight(box.texts[1].font)]

\* --------------------------------------------------------------------- C16
\* C16: add appends, render takes the segments in that order: what a step
\* draws belongs to the segment at idx and starts where the cursor stood,
\* the segments on the screen never go back, and the bounds and the
\* segments stay as they are during the render.
SegmentsInInsertionOrder ==
    [][ /\ Len(box'.texts) = Len(box.texts) + 1 =>
              SubSeq(box'.texts, 1, Len(box.texts)) = box.texts
        /\ (pc = "render" /\ idx <= Len(box.texts)) =>
              LET new == NewEntries
              IN  /\ box' = box
                  /\ bounds' = bounds
                  /\ RectLeft(heap', bounds') = RectLeft(heap, bounds)
                  /\ RectTop(heap', bounds') = RectTop(heap, bounds)
                  /\ idx' > idx
                  /\ SubSeq(screen', 1, Len(screen)) = screen
                  /\ \A i \in 1..Len(new) : new[i].seg = idx
                  /\ Len(new) > 0 =>
                        /\ new[1].x0 = heap[cursor].x
                        /\ new[1].y0 = heap[cursor].y
                  /\ \A i \in 1..(Len(screen') - 1) :
                        screen'[i].seg <= screen'[i + 1].seg ]_vars

\* two different segments, both on the screen
InsertionOrderWitness ==
    /\ pc = "done"
    /\ Len(box.texts) > 1
    /\ box.texts[1] # box.texts[2]
    /\ \E i, j \in 1..Len(screen) :
          /\ screen[i].seg = 1 /\ screen[i].width > 0
          /\ screen[j].seg = 2 /\ screen[j].width > 0

RECURSIVE WordCount(_, _)
WordCount(lines, l) ==
    IF l > Len(lines) THEN 0
    ELSE Len(Split(lines[l], " ")) + WordCount(lines, l + 1)

RECURSIVE TotalWords(_, _)
TotalWords(texts, i) ==
    IF i > Len(texts) THEN 0
    ELSE WordCount(Split(texts[i].text, "\n"), 1) + TotalWords(texts, i + 1)

\* C18: a box of height 0 never signals overflow, and every word of every
\* segment is on the screen when the render is done.
UnboundedNeverOverflows ==
    box.height = 0 =>
        /\ ~overflow
        /\ result.kind # "OverflowError"
        /\ (pc = "done" /\ Bool(box)) =>
              Cardinality({i \in 1..Len(screen) : IsWord(i)})
                  = TotalWords(box.texts, 1)

\* four lines drawn, further down than any box with a height in the model
UnboundedFarWitness ==
    /\ pc = "done"
    /\ box.height = 0
    /\ Cardinality(WordYs) > 3
    /\ heap[cursor].y > originArg.y + 6

\* --------------------------------------------------------------------- C19
\* C19: after p += q (p -= q) the name p still denotes a Point, with the
\* sum (the difference) of the coordinates, and q is as it was.
InPlaceTranslationKeepsPoint ==
    [][ (pc = "geometry" /\ env'.ops = env.ops + 1
            /\ env'.last \in {"iadd", "isub"}) =>
          LET sign == IF env'.last = "iadd" THEN 1 ELSE -1
          IN  /\ env'.p # "None"
              /\ heap'[env'.p] =
                    [x |-> heap[env.p].x + sign * heap[env.q].x,
                     y |-> heap[env.p].y + sign * heap[env.q].y]
              /\ heap'[env.q] = heap[env.q] ]_vars

\* --------------------------------------------------------------------- C20
\* C20: in every state the rectangle's accessors can be read and agree:
\* left = top_left.x, top = top_left.y, right = left + width,
\* bottom = top + height, bottom_right = (right, bottom), and the point a
\* read of bottom_right returns is not the top_left object.
RectangleAccessorsConsistent ==
    pc = "geometry" =>
        /\ env.rect.top_left # "None"
        /\ env.read.kind # "AttributeError"
        /\ RectLeft(heap, env.rect) = heap[env.rect.top_left].x
        /\ RectTop(heap, env.rect) = heap[env.rect.top_left].y
        /\ RectRight(heap, env.rect) = RectLeft(heap, env.rect) + env.rect.width
        /\ RectBottom(heap, env.rect) = RectTop(heap, env.rect) + env.rect.height
        /\ RectBottomRight(heap, env.rect) =
              [x |-> RectRight(heap, env.rect), y |-> RectBottom(heap, env.rect)]
        /\ env.read.kind = "point" => env.read.ref # env.rect.top_left

\* --------------------------------------------------------------------- C26
\* C26: every drawn word whose measured width is at most
\* bounds.width - indent lies within the box horizontally: at draw time
\* cursor.x >= bounds.left and cursor.x + width <= bounds.right.
HorizontalContainment ==
    \A i \in 1..Len(screen) :
        (IsWord(i) /\ screen[i].width <= box.width - box.indent) =>
            /\ screen[i].x >= originArg.x
            /\ screen[i].x + screen[i].width <= originArg.x + box.width

\* a bold word as wide as the room behind the indent, drawn after a wrap
\* and ending exactly at the right edge
ContainmentWitness ==
    /\ pc = "done"
    /\ box.indent > 0
    /\ \E i \in 1..Len(screen) :
          /\ IsWord(i)
          /\ screen[i].y > screen[i].y0
          /\ screen[i].style.bold
          /\ screen[i].width = box.width - box.indent
          /\ screen[i].x + screen[i].width = originArg.x + box.width

\* --------------------------------------------------------------------- C27
\* the word blits of segment s, in the order they were drawn
WordsOf(s) == SelectSeq(screen, LAMBDA e : e.kind = "word" /\ e.seg = s)

\* the text the drawn words spell: a space between words of one line, a
\* newline between lines
RECURSIVE Rejoin(_, _)
Rejoin(ws, i) ==
    IF i > Len(ws) THEN <<>>
    ELSE (IF i = 1 THEN <<>>
          ELSE IF ws[i].line = ws[i - 1].line THEN <<" ">> ELSE <<"\n">>)
         \o ws[i].text \o Rejoin(ws, i + 1)

\* C27: in a render that signals no overflow the words drawn for a segment
\* are its words, each once and in order; a word is drawn on the line the
\* cursor was on or, after one wrap, on the next; y never decreases.
EachWordOnceInOrder ==
    (Rendering /\ ~overflow) =>
        /\ \A s \in 1..Len(box.texts) :
              s < idx =>
                LET ws == WordsOf(s)
                IN  /\ Rejoin(ws, 1) = box.texts[s].text
                    /\ Len(ws) > 0 /\ ws[1].line = 1 /\ ws[1].word = 1
                    /\ \A k \in 2..Len(ws) :
                          \/ ws[k].line = ws[k - 1].line
                                /\ ws[k].word = ws[k - 1].word + 1
                          \/ ws[k].line = ws[k - 1].line + 1 /\ ws[k].word = 1
        /\ \A i \in 1..Len(screen) :
              IsWord(i) =>
                  \/ ~Moved(screen[i])
                  \/ /\ screen[i].y = screen[i].y0 + Advance(screen[i])
                     /\ screen[i].x = originArg.x + box.indent
        /\ \A i, j \in 1..Len(screen) : i < j => screen[i].y <= screen[j].y
        /\ screen # <<>> => heap[cursor].y >= screen[Len(screen)].y

\* a word wider than the whole box reached at the start of a line: drawn
\* once, one line down, and followed by another word
WideWordWitness ==
    /\ pc = "done"
    /\ \E i \in 1..Len(screen) :
          /\ IsWord(i)
          /\ screen[i].width > box.width
          /\ screen[i].x0 = originArg.x
          /\ screen[i].y = screen[i].y0 + Advance(screen[i])
          /\ \E j \in (i + 1)..Len(screen) : IsWord(j) /\ screen[j].text # <<>>

\* --------------------------------------------------------------------- C28
\* C28: a render of a non-empty box returns x = origin.x + width, and with
\* height > 0 it returns y = origin.y + height, overflow or not.
ReturnIsNominalCorner ==
    (pc = "done" /\ Bool(box)) =>
        /\ result.kind = "return"
        /\ result.x = originArg.x + box.width
        /\ box.height > 0 => result.y = originArg.y + box.height

\* a bounded box whose content fits, so that no overflow was signalled
BoundedFitsWitness ==
    /\ pc = "done" /\ box.height > 0 /\ ~overflow
    /\ \E i \in 1..Len(screen) : IsWord(i) /\ screen[i].text # <<>>
    /\ result.kind = "return"
    /\ result.y = originArg.y + box.height

\* --------------------------------------------------------------------- C21
\* the call of box `name` in the routine's log of render calls
CallsOf(name) == SelectSeq(env.calls, LAMBDA c : c.box = name)

HasDetails ==
    \/ env.recipe.yield_ # 0
    \/ env.recipe.preparation # "none"
    \/ env.recipe.served # "none"
    \/ env.recipe.glass # "none"

\* C21: the instructions box is rendered at y = max(y1, y2) + spacing,
\* y1 the y the ingredients render returned, y2 the y the details render
\* returned, or the columns' start y when details has no segments, and
\* then details.render is not called.
InstructionsBelowColumns ==
    /\ (pc \in {"instructions", "card_done", "crashed"} /\ ~HasDetails) =>
          CallsOf("details") = <<>>
    /\ CallsOf("instructions") # <<>> =>
          LET y1 == CallsOf("ingredients")[1].y
              y2 == IF HasDetails THEN CallsOf("details")[1].y ELSE env.start
              below == IF y1 > y2 THEN y1 ELSE y2
          IN  /\ Len(CallsOf("ingredients")) = 1
              /\ HasDetails => Len(CallsOf("details")) = 1
              /\ Len(CallsOf("instructions")) = 1
              /\ CallsOf("instructions")[1].origin.y = below + CardSpacing
              /\ CallsOf("ingredients")[1].origin.y = env.start
              /\ HasDetails => CallsOf("details")[1].origin.y = env.start

\* the details column ends lower than the ingredients column
DetailsTallerWitness ==
    /\ pc = "card_done"
    /\ HasDetails
    /\ CallsOf("details")[1].y > CallsOf("ingredients")[1].y
    /\ CallsOf("instructions")[1].origin.y = CallsOf("details")[1].y + CardSpacing

\* --------------------------------------------------------------------- C22
\* case-insensitive, whitespace-trimmed equality of two names
SameName(a, b) == Lower(Strip(a)) = Lower(Strip(b))

\* the number of ingredients of recipe k that match no supplied name
MissingCount(k) ==
    Cardinality({j \in 1..Len(env.recipes[k].ingredients) :
        \A t \in 1..Len(env.ingredients) :
            ~SameName(env.ingredients[t], env.recipes[k].ingredients[j])})

\* C22: the search without --all lists a recipe iff at most `missing` of
\* its ingredients match none of the supplied names; score + missing is the
\* number of ingredients; the list ascends in (score, title).
ScoredSearchLists ==
    (pc = "searched" /\ env.cmd = "scored") =>
        LET list == env.out.list
        IN  /\ {list[i].src : i \in 1..Len(list)} =
                  {k \in 1..Len(env.recipes) : MissingCount(k) <= env.missing}
            /\ \A i, j \in 1..Len(list) : i # j => list[i].src # list[j].src
            /\ \A i \in 1..Len(list) :
                  /\ list[i].title = env.recipes[list[i].src].title
                  /\ Len(list[i].missing) = MissingCount(list[i].src)
                  /\ list[i].score + Len(list[i].missing)
                        = Len(env.recipes[list[i].src].ingredients)
            /\ \A i, j \in 1..Len(list) :
                  i < j => \/ list[i].score < list[j].score
                           \/ /\ list[i].score = list[j].score
                              /\ list[i].title <= list[j].title

\* two recipes listed against the load order, one of them with a missing
\* ingredient, the match found across case and padding
ScoredSearchWitness ==
    /\ pc = "searched" /\ env.cmd = "scored"
    /\ env.missing = 1
    /\ Len(env.out.list) = 2
    /\ env.out.list[1].src = 2
    /\ env.out.list[1].score = 1 /\ env.out.list[2].score = 1
    /\ Len(env.out.list[2].missing) = 1
    /\ env.ingredients = <<(<<"g">>)>>

\* --------------------------------------------------------------------- C23
\* recipe k has, for every term, an ingredient whose name contains it
ContainsAll(k) ==
    \A t \in 1..Len(env.ingredients) :
        \E j \in 1..Len(env.recipes[k].ingredients) :
            Contains(Lower(env.ingredients[t]),
                     Lower(env.recipes[k].ingredients[j]))

\* C23: search --all and search -c report exactly the recipes that contain
\* all the terms, in load order, each once.
AllSearchReportsContaining ==
    (pc = "searched" /\ env.cmd \in {"all", "contains"}) =>
        /\ env.out.kind = "listed"
        /\ LET list == env.out.list
           IN  /\ {list[i].src : i \in 1..Len(list)} =
                     {k \in 1..Len(env.recipes) : ContainsAll(k)}
               /\ \A i, j \in 1..Len(list) : i < j => list[i].src < list[j].src

\* --------------------------------------------------------------------- C24
\* recipe k uses the ingredient n
Uses(k, n) ==
    \E j \in 1..Len(env.recipes[k].ingredients) : env.recipes[k].ingredients[j] = n

\* the titles of the recipes from position k on that use n, in order
RECURSIVE TitlesUsing(_, _)
TitlesUsing(n, k) ==
    IF k > Len(env.recipes) THEN <<>>
    ELSE (IF Uses(k, n) THEN <<env.recipes[k].title>> ELSE <<>>)
         \o TitlesUsing(n, k + 1)

\* C24: the listing has every ingredient name of the recipes once, in
\* sorted order, each with the titles of the recipes that use it, in the
\* order given and one entry per recipe.
IngredientsAggregated ==
    pc = "listed" =>
        /\ {env.out[i].ingredient : i \in 1..Len(env.out)} =
              {n \in IngredientNames : \E k \in 1..Len(env.recipes) : Uses(k, n)}
        /\ \A i, j \in 1..Len(env.out) :
              i < j => env.out[i].ingredient < env.out[j].ingredient
        /\ \A i \in 1..Len(env.out) :
              env.out[i].recipes = TitlesUsing(env.out[i].ingredient, 1)

\* --------------------------------------------------------------------- C25
\* C25: for a recipe r built by Recipe.from_dict, r.to_dict() returns a
\* dict from which Recipe.from_dict builds a recipe equal to r.
RecipeRoundTrip ==
    /\ pc \in {"written", "read"} => env.d.kind = "return" /\ env.d.value # NoneValue
    /\ pc = "read" => env.back.kind = "recipe" /\ env.back.value = env.r

\* --------------------------------------------------------------------- C29
\* C29: without --output every recipe's PDF is named after its own file
\* (basename without extension, plus .pdf), so that recipes of different
\* names never share a PDF.
EachRecipeOwnPdf ==
    (pc \in {"compose", "viewing", "exit", "end"} /\ env.arg = <<>>) =>
        /\ \A i \in 1..Len(env.written) :
              env.written[i].path
                 = <<env.files[env.written[i].recipe].stem, ".pdf">>
        /\ \A i, j \in 1..Len(env.written) :
              env.files[env.written[i].recipe].stem
                    # env.files[env.written[j].recipe].stem
                 => env.written[i].path # env.written[j].path

\* --------------------------------------------------------------------- C30
\* C30: in the viewing loop a QUIT event or the Q key ends the command
\* with status 0, and the N key ends the viewing of the current card and
\* moves on to the next recipe.
NextKeyEndsViewing ==
    [][ (pc = "viewing" /\ env'.handled = env.handled + 1) =>
          /\ env'.event \in {"QUIT", "K_q"} => pc' = "exit" /\ env'.status = "0"
          /\ env'.event = "K_n" => pc' # "viewing" /\ env'.k = env.k + 1 ]_vars

====
